---------------------------- MODULE Spec2Model ----------------------------
(***************************************************************************)
(* A model of desk.py: the command-packet codec, the telemetry callback    *)
(* (Desk._on_height), the convergence loop (Desk.move_to) and the          *)
(* alternating sit/stand scheduler (_auto), all running as ONE asyncio     *)
(* task on one event loop, with telemetry callbacks delivered by the loop  *)
(* while the task is suspended and the stop signal delivered by a raw      *)
(* signal.signal handler.                                                  *)
(*                                                                         *)
(* Units.  Heights are integers in millimetres; the presets, which the     *)
(* source keeps in centimetres (73.0, 105.0), are kept as cm*10, the value *)
(* move_to_cm passes to move_to.  Time is counted in abstract ticks; the   *)
(* variable remaining is deadline - time.monotonic() of the bounded wait   *)
(* the task is suspended in (never below 0: the loop's timer fires when it *)
(* reaches 0).                                                             *)
(***************************************************************************)
EXTENDS Integers, Sequences, FiniteSets

VARIABLES
    mode,            \* "auto": _auto runs the session; "api": a caller of Desk.move_to
    pc,              \* where the task is (see PcValues)
    subscribed,      \* start_notify done and stop_notify not yet done
    height_mm,       \* Desk._height_mm (None before the first accepted reading)
    height_updated,  \* Desk._height_updated (asyncio.Event) is set
    callback_raised, \* an exception escaped _on_height into the notification channel
    dropped,         \* history: a malformed payload has been delivered to _on_height
    stop,            \* _auto's stop event is set
    stop_at,         \* history: the pc at which the signal handler ran ("none" before)
    loop_ran,        \* the event loop has run a callback since stop was set in the interval wait
    late_stop,       \* stop was set after the interval wait's timer had already fired
    next_is_stand,   \* _auto's next_is_stand
    remaining,       \* deadline - time.monotonic() of the wait in progress
    target_mm,       \* move_to's target_mm argument
    cmd,             \* the last frame written to the Link
    writes,          \* write_gatt_char calls made by the current (last) move_to call
    link,            \* what the Link answered to the last write: "none", "pending", "acked", "error"
    result,          \* the value move_to returned
    heard,           \* history: readings accepted while the call was in its wait loop (saturating)
    report,          \* what the last scheduler iteration printed: "none", "skipped", "reached", "timeout"
    wakes,           \* history: times the call's wait_for returned on the signal (saturating)
    unseen,          \* history: a reading accepted since the write was issued has not been compared yet
    last_reading,    \* history: the value of the most recently accepted payload (None before)
    first_target,    \* history: the preset next_is_stand stood for when the loop was entered (0 before)
    input            \* the input of the codec and decoder specifications (<<>> in Spec)

vars == <<mode, pc, subscribed, height_mm, height_updated, callback_raised, dropped, stop,
          stop_at, loop_ran, late_stop, next_is_stand, remaining, target_mm, cmd,
          writes, link, result, heard, report, wakes, unseen, last_reading,
          first_target, input>>

trackerVars == <<height_mm, height_updated, callback_raised, dropped, last_reading>>
schedVars   == <<stop, stop_at, loop_ran, late_stop, next_is_stand, report, first_target>>
moveVars    == <<target_mm, cmd, writes, link, result, heard, wakes, unseen>>

---------------------------------------------------------------------------
(* Program constants *)

MIN_HEIGHT_MM == 650
MAX_HEIGHT_MM == 1300
\* FALLBACK_SIT_CM * 10 and FALLBACK_STAND_CM * 10
SIT_MM == 730
STAND_MM == 1050
\* move_to's default tolerance_mm
TOLERANCE_MM == 10
\* the 2.0 cm of the startup rule, in millimetres
NEAR_MM == 20
\* height_mm before the first accepted reading (Python's None)
None == -1

(* Bounds of the model *)

\* move_to's timeout (30.0 s in the source), in ticks
Timeout == 2
\* the scheduler's interval, in ticks
Interval == 2
\* heard saturates here
HeardCap == 2
\* the codec is run on every target from Margin below the range to Margin above it
Margin == 60
\* the decoder is run on every payload of at most this many bytes over PayloadBytes
MaxPayloadLen == 5

\* targets a caller passes to move_to: below the range, inside it, its top, above it
Targets == {600, 730, 1300, 9999}

\* notification payloads, as byte sequences:
\*   "0645" "0720" "0800" "0890" "1000" "1045" "1300" "9999" "0000"
Wellformed == { <<48,54,52,53>>, <<48,55,50,48>>, <<48,56,48,48>>, <<48,56,57,48>>,
                <<49,48,48,48>>, <<49,48,52,53>>, <<49,51,48,48>>, <<57,57,57,57>>,
                <<48,48,48,48>> }
\*   "95" "95.0" "" "01000" "1 00" and two payloads that are not ASCII
Malformed == { <<57,53>>, <<57,53,46,48>>, <<>>, <<48,49,48,48,48>>, <<49,32,48,48>>,
               <<255,57,53,48>>, <<49,48,48,200>> }
Payloads == Wellformed \cup Malformed

\* the number a payload of four decimal digits writes
DigitsValue(d) == (1000 * (d[1] - 48)) + (100 * (d[2] - 48)) + (10 * (d[3] - 48)) + (d[4] - 48)

PcValues == {"connecting", "interval", "countdown", "armed", "sending", "waiting",
             "returned", "raised", "stopped", "closed", "failed"}

---------------------------------------------------------------------------
(* Packet codec: build_move_packet *)

Abs(x) == IF x < 0 THEN -x ELSE x
Min(a, b) == IF a < b THEN a ELSE b
Max(a, b) == IF a > b THEN a ELSE b

\* a ^ b on non-negative integers, bit by bit
BitXor[a \in Nat, b \in Nat] ==
    IF a = 0 /\ b = 0 THEN 0
    ELSE (((a % 2) + (b % 2)) % 2) + (2 * BitXor[a \div 2, b \div 2])

\* max(MIN_HEIGHT_MM, min(MAX_HEIGHT_MM, target_mm))
Clamp(t) == Max(MIN_HEIGHT_MM, Min(MAX_HEIGHT_MM, t))

RECURSIVE XorFromStart(_, _)
\* Mutant: the checksum runs over the whole body, header included.
XorFromStart(body, i) ==
    IF i < 1 THEN 0 ELSE BitXor[XorFromStart(body, i - 1), body[i]]

RECURSIVE XorFrom(_, _)
\* chk = 0; for b in body[2:]: chk ^= b   (body[2:] starts at the 3rd byte)
XorFrom(body, i) ==
    IF i < 3 THEN 0 ELSE BitXor[XorFrom(body, i - 1), body[i]]

build_move_packet(t) ==
    LET c    == Clamp(t)
        hi   == (c \div 256) % 256
        lo   == c % 256
        body == <<166, 168, 1, hi, lo, 0, 0>>
        chk  == XorFrom(body, Len(body))
    IN  body \o <<chk, 255>>

---------------------------------------------------------------------------
(* Telemetry callback: Desk._on_height *)

\* bytes(data).decode("ascii") succeeds
AsciiDecodes(data) == \A i \in 1..Len(data) : data[i] < 128
\* s.isdigit() of a decoded ASCII string of length > 0
IsDigits(data) == Len(data) > 0 /\ \A i \in 1..Len(data) : data[i] >= 48 /\ data[i] <= 57

RECURSIVE ParseInt(_)
\* int(s) of a string of decimal digits
ParseInt(data) ==
    IF Len(data) = 0 THEN 0
    ELSE (10 * ParseInt(SubSeq(data, 1, Len(data) - 1))) + (data[Len(data)] - 48)

\* the payload passes len(s) == 4 and s.isdigit() after a successful decode
Accepts(data) == AsciiDecodes(data) /\ Len(data) = 4 /\ IsDigits(data)

\* Mutant: the length test is missing, any string of digits is taken.
on_height_any_length(data, st) ==
    IF ~AsciiDecodes(data) THEN st
    ELSE IF IsDigits(data)
         THEN [h |-> ParseInt(data), u |-> TRUE, raised |-> st.raised]
         ELSE st

\* Mutant: the reading is clamped into the command range before it is stored.
on_height_clamped(data, st) ==
    IF ~AsciiDecodes(data) THEN st
    ELSE IF Len(data) = 4 /\ IsDigits(data)
         THEN [h |-> Clamp(ParseInt(data)), u |-> TRUE, raised |-> st.raised]
         ELSE st

\* Mutant: the height is stored but the event is not set.
on_height_no_signal(data, st) ==
    IF ~AsciiDecodes(data) THEN st
    ELSE IF Len(data) = 4 /\ IsDigits(data)
         THEN [h |-> ParseInt(data), u |-> st.u, raised |-> st.raised]
         ELSE st

\* Mutant: a payload that is not a reading makes the height unknown again.
on_height_reset(data, st) ==
    IF ~AsciiDecodes(data) THEN [h |-> None, u |-> st.u, raised |-> st.raised]
    ELSE IF Len(data) = 4 /\ IsDigits(data)
         THEN [h |-> ParseInt(data), u |-> TRUE, raised |-> st.raised]
         ELSE [h |-> None, u |-> st.u, raised |-> st.raised]

\* The tracker after _on_height(data), from tracker state st = [h, u, raised].
\* A failed decode raises inside the try and is absorbed by "except Exception: pass".
on_height(data, st) ==
    IF ~AsciiDecodes(data) THEN st
    ELSE IF Len(data) = 4 /\ IsDigits(data)
         THEN [h |-> ParseInt(data), u |-> TRUE, raised |-> st.raised]
         ELSE st

---------------------------------------------------------------------------
(* Move controller and scheduler: pure parts *)

\* Mutant: the tolerance compared with < instead of <=.
ReachedStrict(h, t, tol) == h # None /\ Abs(h - t) < tol

\* self._height_mm is not None and abs(self._height_mm - target_mm) <= tolerance_mm
Reached(h, t, tol) == h # None /\ Abs(h - t) <= tol

\* Mutant: far from both presets, the comparison of the two distances is reversed.
StartNextIsStandReversed(h) ==
    IF h = None THEN TRUE
    ELSE IF Abs(h - STAND_MM) < NEAR_MM THEN FALSE
    ELSE IF Abs(h - SIT_MM) >= NEAR_MM THEN Abs(h - SIT_MM) > Abs(h - STAND_MM)
    ELSE TRUE

\* next_is_stand as _auto computes it from desk.height_cm at startup
StartNextIsStand(h) ==
    IF h = None THEN TRUE
    ELSE IF Abs(h - STAND_MM) < NEAR_MM THEN FALSE
    ELSE IF Abs(h - SIT_MM) >= NEAR_MM THEN Abs(h - SIT_MM) < Abs(h - STAND_MM)
    ELSE TRUE

\* target = stand if next_is_stand else sit, through move_to_cm's int(target_cm * 10)
SchedTarget(nis) == IF nis THEN STAND_MM ELSE SIT_MM

\* Desk.__init__ and the locals of _auto before anything has run
Fresh ==
    /\ subscribed = TRUE
    /\ height_mm = None
    /\ height_updated = FALSE
    /\ callback_raised = FALSE
    /\ dropped = FALSE
    /\ stop = FALSE
    /\ stop_at = "none"
    /\ loop_ran = FALSE
    /\ late_stop = FALSE
    /\ next_is_stand = TRUE
    /\ remaining = 0
    /\ target_mm = 0
    /\ cmd = <<>>
    /\ writes = 0
    /\ link = "none"
    /\ result = FALSE
    /\ heard = 0
    /\ report = "none"
    /\ wakes = 0
    /\ unseen = FALSE
    /\ last_reading = None
    /\ first_target = 0

Init ==
    /\ mode \in {"auto", "api"}
    /\ pc = "connecting"
    /\ input = <<>>
    /\ Fresh


---------------------------------------------------------------------------
(* The environment: telemetry, the stop signal, time *)

\* The task is suspended in an await: the event loop runs callbacks only then.
AtAwait == pc \in {"connecting", "interval", "countdown", "sending", "waiting"}

\* The Link delivers a notification payload: the loop runs Desk._on_height(data).
Notify(payload) ==
    /\ subscribed
    /\ AtAwait
    /\ LET st == on_height(payload, [h |-> height_mm, u |-> height_updated,
                                  raised |-> callback_raised])
       IN  /\ height_mm' = st.h
           /\ height_updated' = st.u
           /\ callback_raised' = st.raised
    /\ dropped' = (dropped \/ payload \in Malformed)
    /\ last_reading' = IF payload \in Wellformed THEN DigitsValue(payload) ELSE last_reading
    /\ heard' = IF pc = "waiting" /\ Accepts(payload) THEN Min(heard + 1, HeardCap) ELSE heard
    /\ unseen' = (unseen \/ (pc \in {"sending", "waiting"} /\ payload \in Wellformed))
    \* the callback reached the loop through call_soon_threadsafe, which wakes the selector
    /\ loop_ran' = IF pc = "interval" /\ stop THEN TRUE ELSE loop_ran
    /\ UNCHANGED <<mode, input, pc, subscribed, stop, stop_at, late_stop, next_is_stand,
                   remaining, target_mm, cmd, writes, link, result, report, wakes,
                   first_target>>

\* SIGINT or SIGTERM: the handler installed with signal.signal runs stop.set() in the
\* main thread, between two bytecodes of the task or while the loop sleeps in select().
\* It does not wake the selector: a task waiting on stop resumes when the loop next runs.
\* late: the interval timer's callback has already run and the task is about to resume
\* with TimeoutError (possible only once the interval has elapsed).
StopSignal(late) ==
    /\ mode = "auto"
    /\ ~stop
    /\ pc \notin {"stopped", "failed"}
    /\ late => pc = "interval" /\ remaining = 0
    /\ stop' = TRUE
    /\ stop_at' = pc
    /\ loop_ran' = FALSE
    /\ late_stop' = late
    /\ UNCHANGED <<mode, input, pc, subscribed, trackerVars, next_is_stand, remaining, moveVars,
                   report, first_target>>

\* A wake-up of the task is due: the loop is running and will resume it before
\* any more time passes.
WakeDue ==
    \/ pc = "waiting" /\ height_updated
    \/ pc = "interval" /\ stop /\ ~late_stop /\ loop_ran

\* One tick of time.monotonic() while the task is suspended in a bounded wait.
Tick ==
    /\ pc \in {"interval", "waiting"}
    /\ remaining > 0
    /\ ~WakeDue
    /\ remaining' = remaining - 1
    /\ UNCHANGED <<mode, input, pc, subscribed, trackerVars, schedVars, moveVars>>

---------------------------------------------------------------------------
(* Desk.move_to *)

\* move_to from its first line to the await of write_gatt_char: the frame is built
\* and handed to the Link.  Until the write is acknowledged remaining holds the timeout
\* argument: the deadline is taken after the acknowledgement, and no tick is counted
\* against it before.
CallMoveTo(t, timeout) ==
    /\ target_mm' = t
    /\ cmd' = build_move_packet(t)
    /\ writes' = 1
    /\ link' = "pending"
    /\ heard' = 0
    /\ wakes' = 0
    /\ unseen' = FALSE
    /\ remaining' = timeout
    /\ pc' = "sending"
    /\ UNCHANGED result

\* "while time.monotonic() < deadline:" and, inside, clear() and the await of wait_for;
\* after the loop, "return False".
MoveLoop ==
    IF remaining > 0
    THEN /\ height_updated' = FALSE
         /\ pc' = "waiting"
         /\ UNCHANGED result
    ELSE /\ pc' = "returned"
         /\ result' = FALSE
         /\ UNCHANGED height_updated

\* Mutant: after the acknowledgement the height already tracked is compared first.
WriteAckCompareFirst ==
    /\ pc = "sending"
    /\ link' = "acked"
    /\ IF Reached(height_mm, target_mm, TOLERANCE_MM)
       THEN /\ pc' = "returned"
            /\ result' = TRUE
            /\ UNCHANGED height_updated
       ELSE MoveLoop
    /\ UNCHANGED <<mode, input, subscribed, height_mm, callback_raised, dropped, last_reading, schedVars, remaining,
                   target_mm, cmd, writes, heard, wakes, unseen>>

\* The Link acknowledges the write: deadline = now + timeout, then the loop.
WriteAck ==
    /\ pc = "sending"
    /\ link' = "acked"
    /\ MoveLoop
    /\ UNCHANGED <<mode, input, subscribed, height_mm, callback_raised, dropped, last_reading, schedVars, remaining,
                   target_mm, cmd, writes, heard, wakes, unseen>>

\* Mutant: a failed write is sent again.
WriteFailRetried ==
    /\ pc = "sending"
    /\ writes' = writes + 1
    /\ link' = "pending"
    /\ UNCHANGED <<mode, input, pc, subscribed, trackerVars, schedVars, remaining,
                   target_mm, cmd, result, heard, wakes, unseen>>

\* Mutant: a failed write is swallowed and the call goes on into its wait loop.
WriteFailSwallowed ==
    /\ pc = "sending"
    /\ link' = "error"
    /\ MoveLoop
    /\ UNCHANGED <<mode, input, subscribed, height_mm, callback_raised, dropped, last_reading, schedVars, remaining,
                   target_mm, cmd, writes, heard, wakes, unseen>>

\* The Link reports a send failure: write_gatt_char raises out of move_to.
WriteFail ==
    /\ pc = "sending"
    /\ link' = "error"
    /\ pc' = "raised"
    /\ UNCHANGED <<mode, input, subscribed, trackerVars, schedVars, remaining,
                   target_mm, cmd, writes, result, heard, wakes, unseen>>

\* wait_for returned because the event was set: compare, return True or loop again.
MoveWake ==
    /\ pc = "waiting"
    /\ height_updated
    /\ IF Reached(height_mm, target_mm, TOLERANCE_MM)
       THEN /\ pc' = "returned"
            /\ result' = TRUE
            /\ UNCHANGED height_updated
       ELSE MoveLoop
    /\ wakes' = Min(wakes + 1, HeardCap)
    /\ unseen' = FALSE
    /\ UNCHANGED <<mode, input, subscribed, height_mm, callback_raised, dropped, last_reading,
                   schedVars, remaining, target_mm, cmd, writes, link, heard>>

\* Mutant: the wait gives up without the remaining budget having run out.
MoveTimeoutEarly ==
    /\ pc = "waiting"
    /\ pc' = "returned"
    /\ result' = FALSE
    /\ UNCHANGED <<mode, input, subscribed, trackerVars, schedVars, remaining,
                   target_mm, cmd, writes, link, heard, wakes, unseen>>

\* Mutant: the event is awaited without a timeout, so the wait never gives up.
MoveTimeoutNever ==
    /\ pc = "waiting"
    /\ FALSE
    /\ UNCHANGED vars

\* wait_for raised TimeoutError: break, return False.  When a reading lands in the
\* same loop iteration as the timer, either may win.
MoveTimeout ==
    /\ pc = "waiting"
    /\ remaining = 0
    /\ pc' = "returned"
    /\ result' = FALSE
    /\ UNCHANGED <<mode, input, subscribed, trackerVars, schedVars, remaining,
                   target_mm, cmd, writes, link, heard, wakes, unseen>>

\* "async with connect(address) as desk: await desk.move_to(t, timeout=...)"
ApiMove(t, timeout) ==
    /\ mode = "api"
    /\ pc = "connecting"
    /\ CallMoveTo(t, timeout)
    /\ UNCHANGED <<mode, input, subscribed, trackerVars, schedVars>>

\* the caller leaves the connect block: stop_notify
ApiDone ==
    /\ mode = "api"
    /\ pc = "returned"
    /\ pc' = "closed"
    /\ subscribed' = FALSE
    /\ UNCHANGED <<mode, input, trackerVars, schedVars, remaining, moveVars>>

\* Mutant: _notifications yields without try/finally, an exception skips stop_notify.
UnwindLeak ==
    /\ pc = "raised"
    /\ pc' = "failed"
    /\ UNCHANGED <<mode, input, subscribed, trackerVars, schedVars, remaining, moveVars>>

\* The exception leaves every enclosing block; _notifications' finally runs stop_notify.
Unwind ==
    /\ pc = "raised"
    /\ pc' = "failed"
    /\ subscribed' = FALSE
    /\ UNCHANGED <<mode, input, trackerVars, schedVars, remaining, moveVars>>

---------------------------------------------------------------------------
(* _auto *)

\* "while not stop.is_set():" and, inside, the entry into the interval wait; after the
\* loop the final notification, and leaving connect runs stop_notify.
SchedLoop ==
    IF stop
    THEN /\ pc' = "stopped"
         /\ subscribed' = FALSE
         /\ UNCHANGED <<remaining, loop_ran, late_stop>>
    ELSE /\ pc' = "interval"
         /\ remaining' = Interval
         /\ loop_ran' = FALSE
         /\ late_stop' = FALSE
         /\ UNCHANGED subscribed

\* after connect's sleep: read the height, choose next_is_stand, enter the loop
Startup ==
    /\ mode = "auto"
    /\ pc = "connecting"
    /\ next_is_stand' = StartNextIsStand(height_mm)
    /\ first_target' = SchedTarget(next_is_stand')
    /\ SchedLoop
    /\ UNCHANGED <<mode, input, trackerVars, stop, stop_at, moveVars, report>>

\* _notify("Desk", "Started...") raises: subprocess.run of the plain notification has no
\* handler around it (TimeoutExpired after 5 s, OSError when osascript cannot be run).
\* next_is_stand has been computed by then.
StartupFail ==
    /\ mode = "auto"
    /\ pc = "connecting"
    /\ next_is_stand' = StartNextIsStand(height_mm)
    /\ first_target' = SchedTarget(next_is_stand')
    /\ pc' = "raised"
    /\ UNCHANGED <<mode, input, subscribed, trackerVars, stop, stop_at, loop_ran, late_stop,
                   report, remaining, moveVars>>

\* wait_for(stop.wait(), timeout=interval) returned: break.  The task resumes when the
\* loop runs: after a callback woke the selector, or when the interval timer is due (the
\* wake-up queued by stop.set() is then ahead of the timer's).
IntervalWake ==
    /\ pc = "interval"
    /\ stop /\ ~late_stop
    /\ loop_ran \/ remaining = 0
    /\ pc' = "stopped"
    /\ subscribed' = FALSE
    /\ UNCHANGED <<mode, input, trackerVars, schedVars, remaining, moveVars>>

\* wait_for raised TimeoutError: pass, then the countdown dialog starts in a thread.
IntervalTimeout ==
    /\ pc = "interval"
    /\ remaining = 0
    /\ ~stop \/ late_stop
    /\ pc' = "countdown"
    /\ UNCHANGED <<mode, input, subscribed, trackerVars, schedVars, remaining, moveVars>>

\* Mutant: stop is not looked at after the countdown.
CountdownDoneStopIgnored(skipped) ==
    /\ pc = "countdown"
    /\ IF skipped
       THEN /\ report' = "skipped"
            /\ SchedLoop
       ELSE /\ pc' = "armed"
            /\ UNCHANGED <<subscribed, remaining, loop_ran, late_stop, report>>
    /\ UNCHANGED <<mode, input, trackerVars, stop, stop_at, next_is_stand, first_target, moveVars>>

\* Mutant: a skipped step flips next_is_stand as a move does.
CountdownDoneSkipFlips(skipped) ==
    /\ pc = "countdown"
    /\ IF stop
       THEN /\ pc' = "stopped"
            /\ subscribed' = FALSE
            /\ UNCHANGED <<remaining, loop_ran, late_stop, report, next_is_stand>>
       ELSE IF skipped
            THEN /\ report' = "skipped"
                 /\ next_is_stand' = ~next_is_stand
                 /\ SchedLoop
            ELSE /\ pc' = "armed"
                 /\ UNCHANGED <<subscribed, remaining, loop_ran, late_stop, report, next_is_stand>>
    /\ UNCHANGED <<mode, input, trackerVars, stop, stop_at, first_target, moveVars>>

\* to_thread(_notify, ...) returned skipped; "if stop.is_set(): break",
\* "if skipped: continue"
CountdownDone(skipped) ==
    /\ pc = "countdown"
    /\ IF stop
       THEN /\ pc' = "stopped"
            /\ subscribed' = FALSE
            /\ UNCHANGED <<remaining, loop_ran, late_stop, report>>
       ELSE IF skipped
            THEN /\ report' = "skipped"
                 /\ SchedLoop
            ELSE /\ pc' = "armed"
                 /\ UNCHANGED <<subscribed, remaining, loop_ran, late_stop, report>>
    /\ UNCHANGED <<mode, input, trackerVars, stop, stop_at, next_is_stand, first_target, moveVars>>

\* "ok = await desk.move_to_cm(target)" up to the await of the write
SchedMove ==
    /\ pc = "armed"
    /\ CallMoveTo(SchedTarget(next_is_stand), Timeout)
    /\ UNCHANGED <<mode, input, subscribed, trackerVars, schedVars>>

\* Mutant: next_is_stand is flipped only when the move reached its target.
AfterMoveFlipIfReached ==
    /\ mode = "auto"
    /\ pc = "returned"
    /\ report' = IF result THEN "reached" ELSE "timeout"
    /\ next_is_stand' = IF result THEN ~next_is_stand ELSE next_is_stand
    /\ SchedLoop
    /\ UNCHANGED <<mode, input, trackerVars, stop, stop_at, first_target, moveVars>>

\* move_to returned: report, "next_is_stand = not next_is_stand", back to the loop head
AfterMove ==
    /\ mode = "auto"
    /\ pc = "returned"
    /\ report' = IF result THEN "reached" ELSE "timeout"
    /\ next_is_stand' = ~next_is_stand
    /\ SchedLoop
    /\ UNCHANGED <<mode, input, trackerVars, stop, stop_at, first_target, moveVars>>

---------------------------------------------------------------------------
(* The codec on its own: build_move_packet applied to each target of CodecInputs *)

CodecInputs ==
    ((MIN_HEIGHT_MM - Margin)..(MAX_HEIGHT_MM + Margin)) \cup {-5, 0, 9999, 70000}

CodecInit ==
    /\ mode = "codec"
    /\ pc = "input"
    /\ input \in CodecInputs
    /\ Fresh

\* cmd = build_move_packet(target_mm)
Encode ==
    /\ mode = "codec"
    /\ pc = "input"
    /\ cmd' = build_move_packet(input)
    /\ pc' = "encoded"
    /\ UNCHANGED <<mode, input, subscribed, trackerVars, schedVars, remaining,
                   target_mm, writes, link, result, heard, wakes, unseen>>

CodecNext == Encode

CodecSpec == CodecInit /\ [][CodecNext]_vars

---------------------------------------------------------------------------
(* The decoder on its own: _on_height applied to each payload of DecoderInputs *)

\* space, "/", "0", "9", ":" and a byte that is not ASCII
PayloadBytes == {32, 47, 48, 57, 58, 200}

DecoderInputs == UNION {[1..n -> PayloadBytes] : n \in 0..MaxPayloadLen}

DecoderInit ==
    /\ mode = "decoder"
    /\ pc = "input"
    /\ input \in DecoderInputs
    /\ Fresh

\* the Link calls _on_height(sender, data) on a new Desk
Decode ==
    /\ mode = "decoder"
    /\ pc = "input"
    /\ LET st == on_height(input, [h |-> height_mm, u |-> height_updated,
                                   raised |-> callback_raised])
       IN  /\ height_mm' = st.h
           /\ height_updated' = st.u
           /\ callback_raised' = st.raised
    /\ pc' = "decoded"
    /\ UNCHANGED <<mode, input, subscribed, dropped, last_reading, schedVars, remaining,
                   moveVars>>

DecoderNext == Decode

DecoderSpec == DecoderInit /\ [][DecoderNext]_vars

---------------------------------------------------------------------------

Next ==
    \/ \E payload \in Payloads : Notify(payload)
    \/ \E late \in BOOLEAN : StopSignal(late)
    \/ Tick
    \/ \E t \in Targets, timeout \in {0, Timeout} : ApiMove(t, timeout)
    \/ WriteAck
    \/ WriteFail
    \/ MoveWake
    \/ MoveTimeout
    \/ ApiDone
    \/ Unwind
    \/ Startup
    \/ StartupFail
    \/ IntervalWake
    \/ IntervalTimeout
    \/ \E skipped \in BOOLEAN : CountdownDone(skipped)
    \/ SchedMove
    \/ AfterMove

Spec == Init /\ [][Next]_vars

---------------------------------------------------------------------------
(* The scheduler session with the progress its scheduling gives *)

AutoInit == Init /\ mode = "auto"

\* a step of the task itself: each is taken by the event loop once it is due
TaskStep ==
    \/ WriteAck
    \/ WriteFail
    \/ MoveWake
    \/ MoveTimeout
    \/ Unwind
    \/ Startup
    \/ IntervalWake
    \/ IntervalTimeout
    \/ \E skipped \in BOOLEAN : CountdownDone(skipped)
    \/ SchedMove
    \/ AfterMove

AutoNext ==
    \/ \E payload \in Payloads : Notify(payload)
    \/ \E late \in BOOLEAN : StopSignal(late)
    \/ Tick
    \/ StartupFail
    \/ TaskStep

\* The event loop resumes the task whenever a step of it is due (the Link answers every
\* write, the countdown dialog gives up after countdown seconds), and time goes on:
\* only finitely many notifications arrive within one tick.
FairSpec ==
    /\ AutoInit
    /\ [][AutoNext]_vars
    /\ WF_vars(TaskStep)
    /\ SF_vars(Tick)

TypeOK ==
    /\ mode \in {"auto", "api"}
    /\ pc \in PcValues
    /\ subscribed \in BOOLEAN
    /\ height_mm \in {None} \cup {ParseInt(d) : d \in Wellformed}
    /\ height_updated \in BOOLEAN
    /\ callback_raised \in BOOLEAN
    /\ dropped \in BOOLEAN
    /\ stop \in BOOLEAN
    /\ stop_at \in PcValues \cup {"none"}
    /\ loop_ran \in BOOLEAN
    /\ late_stop \in BOOLEAN
    /\ next_is_stand \in BOOLEAN
    /\ remaining \in 0..Max(Timeout, Interval)
    /\ writes \in 0..1
    /\ link \in {"none", "pending", "acked", "error"}
    /\ result \in BOOLEAN
    /\ heard \in 0..HeardCap
    /\ report \in {"none", "skipped", "reached", "timeout"}
    /\ wakes \in 0..HeardCap
    /\ unseen \in BOOLEAN
    /\ last_reading \in {None} \cup {DigitsValue(d) : d \in Wellformed}
    /\ first_target \in {0, SIT_MM, STAND_MM}
    /\ input = <<>>

---------------------------------------------------------------------------
(* Claims *)

\* C1 (as stated): move_to compares telemetry against the clamped target, so that
\* move_to(t) sends the same frame and returns the same result as move_to(Clamp(t)) on
\* every telemetry sequence.  The two calls run the same code on the same readings and
\* differ only in target_mm, so they stay in lockstep exactly as long as every write
\* carries the frame of the clamped target and every comparison made on waking has the
\* verdict it would have against the clamped target.
C1_ClampedTargetCompared ==
    [][ /\ (pc' = "sending" => cmd' = build_move_packet(Clamp(target_mm')))
        /\ (MoveWake => ((pc' = "returned" /\ result')
                          <=> Reached(height_mm, Clamp(target_mm), TOLERANCE_MM))) ]_vars

\* C2: a call that accepted no reading in its wait loop returns False, and returns
\* exactly when its time budget has run out (remaining = deadline - now is 0): not
\* before, and once the budget is out the return is due and no more time passes.
C2_TimeoutReturnsFalseAtDeadline ==
    /\ (pc = "returned" /\ heard = 0) => (result = FALSE /\ remaining = 0)
    /\ (pc = "waiting" /\ heard = 0 /\ remaining = 0)
          => (ENABLED MoveTimeout /\ ~ENABLED Tick)

\* C2 witness: a scheduler move (timeout > 0) went through its wait and timed out
\* without any reading.
C2_Witness ==
    mode = "auto" /\ pc = "returned" /\ link = "acked" /\ heard = 0 /\ result = FALSE

\* C3: when exactly one reading was accepted during the wait loop, before the deadline,
\* and it is within tolerance of the target, the call's next step is to return True,
\* with one command written (until then the wake-up stays pending and no time passes).
C3_SingleReadingReached ==
    [][ (/\ pc = "waiting" /\ heard = 1 /\ height_updated /\ remaining > 0
         /\ height_mm # None /\ Abs(height_mm - target_mm) <= TOLERANCE_MM)
        => \/ pc' = "waiting" /\ height_updated' /\ remaining' = remaining /\ writes' = writes
           \/ pc' = "returned" /\ result' = TRUE /\ writes' = 1 ]_vars

\* C3 witness: a call returned True after exactly one reading, with one write.
C3_Witness ==
    pc = "returned" /\ result = TRUE /\ heard = 1 /\ writes = 1

C5_IntervalWaitWakesEarly ==
    [][ (pc = "interval" /\ stop /\ ~late_stop)
        => /\ pc' \in {"interval", "stopped"}
           /\ remaining' = remaining
           /\ cmd' = cmd /\ writes' = writes /\ link' = link ]_vars

\* C6: with stop set while the countdown runs, the loop ends with no command written
\* and no flip, whether the countdown comes back skipped or not.
C6_StopDuringCountdown ==
    [][ (pc = "countdown" /\ stop)
        => /\ pc' \in {"countdown", "stopped"}
           /\ next_is_stand' = next_is_stand
           /\ cmd' = cmd /\ writes' = writes /\ link' = link ]_vars

\* C6 witness: the scheduler stopped on a signal that arrived during the countdown.
C6_Witness ==
    pc = "stopped" /\ stop_at = "countdown"

\* C7: at startup, unknown height gives next = stand; within 2.0 cm of stand gives
\* next = sit; otherwise next is the preset the height is farther from.
C7_StartupRule ==
    [][ (mode = "auto" /\ pc = "connecting" /\ pc' # "connecting")
        => LET h  == height_mm
               ds == Abs(h - SIT_MM)
               dt == Abs(h - STAND_MM)
           IN  /\ h = None => next_is_stand' = TRUE
               /\ (h # None /\ dt < NEAR_MM) => next_is_stand' = FALSE
               /\ (h # None /\ dt >= NEAR_MM /\ ds < dt) => next_is_stand' = TRUE
               /\ (h # None /\ dt >= NEAR_MM /\ dt < ds) => next_is_stand' = FALSE ]_vars

\* C7 witness: the scheduler has just started from a height far from both presets and
\* closer to stand, and its first target is sit.
C7_Witness ==
    /\ pc = "interval" /\ remaining = Interval /\ report = "none" /\ link = "none"
    /\ height_mm = 1000 /\ next_is_stand = FALSE

\* C8: every move_to call has written exactly one command, at every point of the call
\* and after it, however it ended.
C8_OneWritePerCall ==
    /\ writes <= 1
    /\ (pc \in {"sending", "waiting", "returned"} \/ link # "none") => writes = 1

\* C8 witness: a call that went round its wait loop several times and timed out has
\* written one command.
C8_Witness ==
    pc = "returned" /\ result = FALSE /\ heard = HeardCap /\ writes = 1

\* C9: once the Link has reported a send failure, the call is over with its one write:
\* the exception is on its way out, the wait loop is not entered, and next_is_stand
\* keeps its value.
C9_SendFailureIsFatal ==
    [][ link' = "error"
        => /\ pc' \in {"raised", "failed"}
           /\ writes' = 1
           /\ heard' = 0
           /\ next_is_stand' = next_is_stand ]_vars

\* C9 witness: the scheduler ended on a send failure of its move.
C9_Witness ==
    mode = "auto" /\ pc = "failed" /\ link = "error" /\ report = "none"

\* C10: a malformed payload changes neither the tracked height nor the update signal,
\* and no exception leaves the callback.
C10_MalformedIgnored ==
    [][ (\E d \in Malformed : Notify(d))
        => /\ height_mm' = height_mm
           /\ height_updated' = height_updated
           /\ callback_raised' = FALSE ]_vars

\* C10 witness: a malformed payload was delivered after a reading had been accepted and
\* the signal cleared by a waiting call.
C10_Witness ==
    dropped /\ height_mm # None /\ ~height_updated /\ pc = "waiting" /\ ~callback_raised

\* C11 (as stated): when a call returns, the number of times its wait was woken by the
\* signal equals the number of readings accepted while it was in its wait loop.
C11_WakesEqualReadings ==
    pc = "returned" => wakes = heard

\* C11 (amended): every accepted reading sets the signal, and the waiter is woken at most
\* once per reading accepted while it was in its wait loop (readings accepted before the
\* waiter resumes share one wake-up).
C11_SignalSetPerReading ==
    [][ /\ \A d \in Wellformed : Notify(d) => height_updated'
        /\ wakes' <= heard' ]_vars

\* C11 witness: a call returned True on one wake-up that covered two accepted readings.
C11_Witness ==
    pc = "returned" /\ result = TRUE /\ heard = 2 /\ wakes = 1

\* C12: for every target m the frame is [0xA6, 0xA8, 0x01, hi, lo, 0, 0, chk, 0xFF]
\* with c = m clamped into [650, 1300], hi = c div 256, lo = c mod 256 and chk the XOR
\* of the five bytes 0x01, hi, lo, 0, 0; so targets below 650 give the frame of 650 and
\* targets above 1300 the frame of 1300 (both written out).
C12_FrameLayout ==
    pc = "encoded" =>
        LET m   == input
            c   == IF m < 650 THEN 650 ELSE IF m > 1300 THEN 1300 ELSE m
            hi  == c \div 256
            lo  == c % 256
            chk == BitXor[BitXor[BitXor[BitXor[1, hi], lo], 0], 0]
        IN  /\ cmd = <<166, 168, 1, hi, lo, 0, 0, chk, 255>>
            /\ m <= 650 => cmd = <<166, 168, 1, 2, 138, 0, 0, 137, 255>>
            /\ m >= 1300 => cmd = <<166, 168, 1, 5, 20, 0, 0, 16, 255>>

\* C12 witness: a target above the range has been encoded.
C12_Witness ==
    pc = "encoded" /\ input = 9999 /\ Len(cmd) = 9

\* C13: a payload is accepted exactly when it is four bytes, each an ASCII decimal
\* digit; an accepted payload gives the number its digits write, unclamped ("9999" gives
\* 9999, "0000" gives 0); any other payload gives no reading and raises nothing.
C13_DecoderAcceptance ==
    pc = "decoded" =>
        /\ ~callback_raised
        /\ IF Len(input) = 4 /\ \A i \in 1..4 : input[i] \in 48..57
           THEN height_updated /\ height_mm = DigitsValue(input)
           ELSE ~height_updated /\ height_mm = None
        /\ input = <<57, 57, 57, 57>> => height_mm = 9999
        /\ input = <<48, 48, 48, 48>> => height_mm = 0

\* C13 witness: "9999" has been decoded and is held as 9999.
C13_Witness ==
    pc = "decoded" /\ input = <<57, 57, 57, 57>> /\ height_mm = 9999 /\ height_updated


\* the awaits of _auto and of the move_to it calls
SuspensionPoints == {"interval", "countdown", "sending", "waiting"}

C15_NoReadingLost ==
    [][ (unseen /\ height_updated /\ ~height_updated')
        => (pc = "waiting" /\ ~unseen') ]_vars

\* C16: when move_to has returned True for a target within [650, 1300], the tracked
\* height is known, a reading was accepted in the wait loop of this call (after the
\* command was sent), and the height is within tolerance_mm of the target.
C16_TrueOnlyWhenReached ==
    (pc = "returned" /\ result /\ target_mm >= MIN_HEIGHT_MM /\ target_mm <= MAX_HEIGHT_MM)
        => /\ height_mm # None
           /\ heard >= 1
           /\ height_mm - target_mm <= TOLERANCE_MM
           /\ target_mm - height_mm <= TOLERANCE_MM

\* C16 witness: a call returned True on a reading exactly tolerance_mm below its target.
C16_Witness ==
    /\ pc = "returned"
    /\ result
    /\ target_mm = SIT_MM
    /\ height_mm = SIT_MM - TOLERANCE_MM
    /\ heard >= 1

\* C17: the tracked height starts unknown; every accepted reading r makes it r and sets
\* the update signal; a known height never becomes unknown again; and in every state
\* the tracked height is the most recently accepted reading (unknown when there is none).
C17_TrackerFollowsReadings ==
    /\ height_mm = None
    /\ [](height_mm = last_reading)
    /\ [][ /\ \A d \in Wellformed :
                Notify(d) => (height_mm' = DigitsValue(d) /\ height_updated')
           /\ height_mm # None => height_mm' # None ]_vars

\* C17 witness: a known height was replaced by a later reading, with a malformed payload
\* dropped in between or around.
C17_Witness ==
    /\ height_mm # None
    /\ height_mm = last_reading
    /\ heard = HeardCap
    /\ dropped
    /\ height_updated

\* C18: the notification subscription is held exactly while the session runs: it is
\* released when the scheduler has stopped on cancellation, when an exception (a Link
\* send failure of a move, or another failure inside the session) has left the session,
\* and when an API caller has left the connect block; and at no other point.
C18_SubscriptionScoped ==
    subscribed <=> pc \notin {"stopped", "failed", "closed"}

\* C18 witness: the scheduler ended on a failure that is not a send failure, after
\* cancellation had been signaled, and the subscription is released.
C18_Witness ==
    mode = "auto" /\ pc = "failed" /\ link = "none" /\ stop /\ ~subscribed

\* C19: every step of the scheduler that sends a move command (enters the write of
\* move_to) is taken in a state where stop is not set.
C19_NoSendAfterStop ==
    [][ (mode = "auto" /\ pc # "sending" /\ pc' = "sending") => ~stop ]_vars

\* C20: each command the scheduler issues targets a preset; the first one targets the
\* preset chosen at startup, and every later one targets the other preset than the
\* command issued before it, whatever skipped, reached and timed-out steps lie between.
C20_CommandsAlternate ==
    [][ (mode = "auto" /\ pc # "sending" /\ pc' = "sending")
        => /\ target_mm' \in {SIT_MM, STAND_MM}
           /\ cmd = <<>> => target_mm' = first_target
           /\ cmd # <<>> => (target_mm' # target_mm /\ cmd' # cmd) ]_vars

\* C20 witness: a command for the other preset than the first is being sent after a
\* skipped step.
C20_Witness ==
    /\ mode = "auto"
    /\ pc = "sending"
    /\ report = "skipped"
    /\ target_mm # first_target

=============================================================================
